---------------------------- MODULE Spec2Model ----------------------------
(***************************************************************************)
(* Remote command bridge of the 3Dmol agent.                               *)
(*                                                                         *)
(* Part 1 (Spec): the Flask/Socket.IO service app.py -- the session        *)
(* registry (_on_connect, _on_disconnect), the dispatcher (_call_viewer,   *)
(* socketio.call with a 15 s timeout) -- together with the inline          *)
(* "command" handler of the page it serves.  The server runs with          *)
(* async_mode="threading": every event handler and every _call_viewer      *)
(* caller is a thread of its own, so one step of the model is one          *)
(* statement that reads or writes the shared _connected_sid.               *)
(*                                                                         *)
(* Part 2 (SpecExec): the 'command' handler of MolecularViewer             *)
(* (request_id revision) running on the browser's event loop.              *)
(*                                                                         *)
(* Part 3 (SpecView): execCommand of MolecularViewer, the render state it  *)
(* keeps (the 3Dmol viewer, viewerState, currentPDB, initialView, the      *)
(* boxinfo overlay) and the snapshot its caller takes.  static/js/viewer.js *)
(* is kept in several revisions; three of them are modelled, and a run     *)
(* executes one of them.                                                   *)
(***************************************************************************)
EXTENDS Integers, Sequences, FiniteSets

\* ------------------------------------------------------------------ bounds
MaxEvents == 3          \* client connections plus _call_viewer invocations in one run
MaxTasks  == 2          \* 'command' events a MolecularViewer receives in one run
\* the tests of the suite that are run (setupTests defines ten)
MaxTests    == 3
MaxMessages  == 2       \* chat requests one ChatAssistant sends in one run
MaxToolCalls == 2       \* tool calls its replies start in one run
MaxCommands == 2        \* commands one MolecularViewer executes in one run

\* --------------------------------------------------------- program constants
None    == 0            \* _connected_sid: str | None = None
TIMEOUT == 15           \* socketio.call(..., timeout=15)

Sids    == 1..MaxEvents
CallIds == 1..MaxEvents
TaskIds == 1..MaxTasks

\* the commands of the public helpers; load_pdb is the only one whose exec
\* awaits (the fetch), the others run to completion inside one event-loop task
Commands      == {"load_pdb", "highlight_hetero", "show_surface", "rotate",
                  "zoom", "add_box", "set_style", "reset"}
CommandInputs == {"load_pdb", "rotate"}

VARIABLES
    _connected_sid,   \* app.py global: sid of the registered viewer, or None
    sess,             \* per client: position of its connect/disconnect handler
    calls,            \* per _call_viewer invocation: position, target, ack id,
                      \* timer, result, and where its command or acknowledgement is
    ncalls,           \* number of _call_viewer invocations so far
    ackCount,         \* per sid: ack ids handed out by socketio.call
    received,         \* MolecularViewer: per 'command' event received, its data and
                      \* the position of its handler invocation
    nreceived,        \* MolecularViewer: number of 'command' events received
    emitted,          \* MolecularViewer: the responses emitted, in order
    revision,         \* which revision of viewer.js the page runs
    viewer,           \* this.viewer: the 3Dmol GLViewer (models, shapes, surfaces,
                      \* styles, camera view, running animation)
    viewerState,      \* this.viewerState
    currentPDB,       \* this.currentPDB ("" while undefined)
    initialView,      \* this.initialView (<<>> while null, else <<view>>)
    boxinfo,          \* the #boxinfo overlay: style.display and the box it shows
    suspended,        \* execCommand invocations suspended in a fetch: the
                      \* command, how its fetch is going to end, and the models
                      \* that were displayed when the command arrived
    reply,            \* what the caller of the last finished execCommand got,
                      \* and the name of the command that finished before it
    ncommands,        \* number of execCommand invocations so far
    page,             \* the page of index.html: whether DOMContentLoaded has run
                      \* its start-up, which of its sockets have a 'command'
                      \* listener, and which socket each sid belongs to
    responses,        \* ChatAssistant: data.responses of the chat reply whose
                      \* tool calls are being handled
    script,           \* the command sequence given to the executor
    first,            \* <<>>, or <<the render state in which an earlier executor
                      \* ended that was given the same sequence>>
    runner,           \* the TestRunner of the page: its fields, where its run
                      \* is, and what the run has pushed, shown and reported
    chat              \* the ChatAssistant: isProcessing, the chat input, the
                      \* typing indicators and tool messages in #chat-messages,
                      \* its requests and its tool calls

bridgeVars == <<_connected_sid, sess, calls, ncalls, ackCount>>
execVars   == <<received, nreceived, emitted>>
viewVars   == <<revision, viewer, viewerState, currentPDB, initialView, boxinfo,
                suspended, reply, ncommands>>
outerVars  == <<page, responses, script, first, runner, chat>>
vars       == <<_connected_sid, sess, calls, ncalls, ackCount,
                received, nreceived, emitted,
                revision, viewer, viewerState, currentPDB, initialView, boxinfo,
                suspended, reply, ncommands,
                page, responses, script, first, runner, chat>>

\* wire: where the command or the acknowledgement of the call is: "none"
\* nowhere (not emitted, or consumed), "sent" the command is in flight to the
\* page, "fetching" its handler is suspended in `await fetch`, "acked"
\* cb({img}) is in flight to the server, "threw" the handler ended without
\* calling cb, "lost" the connection closed under it, "late" the
\* acknowledgement arrived after the call had timed out and was dropped
\* payload: the command name, from `payload = {"name": command, ...}` until the
\* page has read it ("none" before and after)
NoCall == [pc |-> "unused", payload |-> "none", to |-> None, id |-> 0,
           timer |-> 0, result |-> "none", wire |-> "none"]

\* data of a 'command' event: request_id and response_event are 0 when the
\* field is absent (both are falsy in the handler's tests)
NoTask == [st |-> "none", name |-> "none", request_id |-> 0, response_event |-> 0]

\* the revisions of static/js/viewer.js kept in the tree that are modelled:
\* viewer.js.bak, and in test_runner.js the request_id revision and the
\* revision whose reset recreates the viewer
Revisions == {"backup", "request_id", "recreating"}

\* JS null for a box centre or size, which otherwise is <<x, y, z>>
Null == <<>>

\* the camera of a viewer just created: the rotations and the zoom factors
\* applied since the view was last fitted
DefaultView == [rot |-> <<>>, zoom |-> <<>>]

\* $3Dmol.createViewer(...): an empty scene
NewViewer == [models |-> {}, shapes |-> <<>>, surfaces |-> 0, styles |-> {},
              view |-> DefaultView, animating |-> FALSE]

\* this.viewerState as the constructor sets it
NewViewerState == [rotationChanged |-> FALSE, xRotated |-> FALSE, yRotated |-> FALSE,
                   zRotated |-> FALSE, wasReset |-> FALSE, shapesCleared |-> FALSE,
                   hasActiveBox |-> FALSE, boxCenter |-> Null, boxSize |-> Null]

\* document.getElementById("boxinfo") before any add_box: no such element
NoBoxInfo == [display |-> "absent", center |-> Null, size |-> Null]

\* before any execCommand has returned to its caller
NoReply == [n |-> 0, name |-> "none", success |-> FALSE, animating |-> FALSE,
            prev |-> "none"]

\* new TestRunner(viewer): tests of setupTests, results [], running false;
\* the button of the page is enabled.  at: where the run is ("idle" no
\* runAllTests is executing, "clearing" suspended in the fetch of
\* /api/clear_test_results, "run" in `await test.run()` of test i, "wait" in
\* the 500 ms wait of test i)
NewTestRunner == [running |-> FALSE, results |-> <<>>, at |-> "idle", i |-> 0,
                  ran |-> "none", disabled |-> FALSE, reported |-> <<>>,
                  summary |-> FALSE, active |-> 0,
                  status |-> [t \in 1..MaxTests |-> "none"]]

\* i: the index (from 1) of the test runTest is running; ran: how its
\* test.run() ended; disabled: run-tests-btn.disabled; reported: the results
\* the run that started last has emitted to the server; summary: whether that
\* run has shown its summary; active: the invocations of runAllTests that
\* have passed `if (this.running) return` and have not ended; status: the
\* badge in the row of each test ("none": no row yet)

\* new ChatAssistant(socket): isProcessing false, the input enabled, no typing
\* indicator and no tool message in #chat-messages.  req: the fetch of each
\* sendMessage ("none", "fetching", "done"); messages: the .tool-message
\* elements of the document in document order, each with the tool call that
\* created it and the call whose result it shows (0: still the progress text);
\* pending: the handleToolStart invocations suspended in their await
NewChat == [isProcessing |-> FALSE, disabled |-> FALSE, typing |-> 0,
            req |-> [r \in 1..MaxMessages |-> "none"], nsent |-> 0,
            messages |-> <<>>, pending |-> {}, ntools |-> 0]

\* JS undefined, as the value of a property an object does not have
Undefined == "undefined"

\* a page that is still loading: DOMContentLoaded has not fired, no socket has
\* a 'command' listener, no connection of the page has reached the server
NoPage == [loaded |-> FALSE, listeners |-> {}, socket |-> [s \in Sids |-> "none"]]

InFlight == {"sent", "fetching", "acked"}

\* the frame of a call that has returned or raised is gone: its recipient and
\* ack id live on only in the library's callback table, while the command or
\* its acknowledgement is still under way (and in the record of a dropped one)
Returned(r) ==
    IF r.pc = "done" /\ r.wire \notin InFlight \cup {"late"}
    THEN [r EXCEPT !.to = None, !.id = 0]
    ELSE r

Init ==
    /\ _connected_sid = None
    /\ sess = [s \in Sids |-> "new"]
    /\ calls = [c \in CallIds |-> NoCall]
    /\ ncalls = 0
    /\ ackCount = [s \in Sids |-> 0]
    /\ received = [k \in TaskIds |-> NoTask]
    /\ nreceived = 0
    /\ emitted = <<>>
    /\ revision = "request_id"
    /\ viewer = NewViewer
    /\ viewerState = NewViewerState
    /\ currentPDB = ""
    /\ initialView = <<>>
    /\ boxinfo = NoBoxInfo
    /\ suspended = {}
    /\ reply = NoReply
    /\ ncommands = 0
    /\ page = NoPage
    /\ responses = <<>>
    /\ script = <<>>
    /\ first = <<>>
    /\ runner = NewTestRunner
    /\ chat = NewChat

\* clients that have arrived, and the events the environment has raised so far
Arrived == {s \in Sids : sess[s] # "new"}
Events  == Cardinality(Arrived) + ncalls

\* sessions whose connection was accepted ("registered") and is still open
Live == {s \in Sids : sess[s] = "connected"}

\* ------------------------------------------------------- session registry
\* _on_connect, `if _connected_sid is None:` ... else raise ConnectionRefusedError
\* (a sid is allotted when the client arrives: sids are numbered in that order)
OnConnectCheck(s) ==
    /\ sess[s] = "new"
    /\ \A r \in Sids : r < s => sess[r] # "new"
    /\ Events < MaxEvents
    /\ sess' = [sess EXCEPT ![s] = IF _connected_sid = None THEN "L127" ELSE "refused"]
    /\ UNCHANGED <<_connected_sid, calls, ncalls, ackCount, execVars, viewVars, outerVars>>

\* _on_connect, `_connected_sid = request.sid; emit("status", {"msg": "registered"})`
OnConnectSet(s) ==
    /\ sess[s] = "L127"
    /\ _connected_sid' = s
    /\ sess' = [sess EXCEPT ![s] = "connected"]
    /\ UNCHANGED <<calls, ncalls, ackCount, execVars, viewVars, outerVars>>

IsPrimaryAlways(s) == TRUE

\* _on_disconnect, `request.sid == _connected_sid`
IsPrimary(s) == s = _connected_sid

\* _on_disconnect of a connected client, up to and including the comparison;
\* the client's transport is closed, so nothing in flight to or from it survives
OnDisconnectCheck(s) ==
    /\ sess[s] = "connected"
    /\ sess' = [sess EXCEPT ![s] = IF IsPrimary(s) THEN "L137" ELSE "closed"]
    /\ calls' = [c \in CallIds |->
                    IF calls[c].to = s /\ calls[c].wire \in InFlight
                    THEN Returned([calls[c] EXCEPT !.wire = "lost", !.payload = "none"])
                    ELSE calls[c]]
    /\ UNCHANGED <<_connected_sid, ncalls, ackCount, execVars, viewVars, outerVars>>

\* _on_disconnect, `_connected_sid = None`
OnDisconnectClear(s) ==
    /\ sess[s] = "L137"
    /\ _connected_sid' = None
    /\ sess' = [sess EXCEPT ![s] = "closed"]
    /\ UNCHANGED <<calls, ncalls, ackCount, execVars, viewVars, outerVars>>

\* ------------------------------------------------------------- dispatcher
NoViewerNever == FALSE

\* _call_viewer, `if _connected_sid is None:`
NoViewer == _connected_sid = None

\* _call_viewer is entered by a caller thread and runs its first statement
CallViewer(name) ==
    /\ Events < MaxEvents
    /\ ncalls' = ncalls + 1
    /\ calls' = [calls EXCEPT ![ncalls + 1] =
                    IF NoViewer
                    THEN [NoCall EXCEPT !.pc = "done",
                                        !.result = "ConnectionUnavailable"]
                    ELSE [NoCall EXCEPT !.pc = "L148", !.payload = name]]
    /\ UNCHANGED <<_connected_sid, sess, ackCount, execVars, viewVars, outerVars>>

CallTargetFirstLive ==
    IF Live = {} THEN None ELSE CHOOSE s \in Live : \A t \in Live : s <= t

\* _call_viewer, the argument `to=_connected_sid` of socketio.call
CallTarget == _connected_sid

\* socketio.call("command", payload, to=_connected_sid, timeout=15): the emit.
\* Without a recipient the library raises ValueError; a recipient whose
\* connection is closed gets nothing and the caller waits for the timeout.
CallSend(c) ==
    /\ calls[c].pc = "L148"
    /\ LET to == CallTarget IN
        IF to = None
        THEN /\ calls' = [calls EXCEPT ![c].pc = "done", ![c].result = "ValueError",
                                       ![c].payload = "none"]
             /\ UNCHANGED ackCount
        ELSE IF sess[to] = "connected"
        THEN /\ ackCount' = [ackCount EXCEPT ![to] = @ + 1]
             /\ calls' = [calls EXCEPT ![c].pc = "waiting", ![c].to = to,
                                       ![c].id = ackCount[to] + 1,
                                       ![c].wire = "sent"]
        ELSE /\ calls' = [calls EXCEPT ![c].pc = "waiting", ![c].to = to,
                                       ![c].payload = "none"]
             /\ UNCHANGED ackCount
    /\ UNCHANGED <<_connected_sid, sess, ncalls, execVars, viewVars, outerVars>>

Waiting == {c \in CallIds : calls[c].pc = "waiting"}

\* the wait with the library's default timeout of 60 instead of 15
CallDeadlineDefault == 4 * TIMEOUT

\* the `timeout=15` argument of socketio.call
CallDeadline == TIMEOUT

\* socketio.call: the wait of the caller runs out with no acknowledgement
\* received, and TimeoutError is raised; timer is the time the caller waited
CallTimeout(c) ==
    /\ calls[c].pc = "waiting"
    /\ calls' = [calls EXCEPT ![c] = Returned([@ EXCEPT !.pc = "done",
                                                        !.result = "Timeout",
                                                        !.timer = CallDeadline])]
    /\ UNCHANGED <<_connected_sid, sess, ncalls, ackCount, execVars, viewVars, outerVars>>

MatchCallByArrival(s, id) ==
    LET w == {c \in Waiting : calls[c].to = s} IN
    IF w = {} THEN {} ELSE {CHOOSE c \in w : \A d \in w : c <= d}

\* socketio.call: the acknowledgement is matched to the waiter by (sid, ack id)
MatchCall(s, id) == {c \in CallIds : calls[c].to = s /\ calls[c].id = id}

\* the acknowledgement of command k reaches the server: for the matching call
\* `res = socketio.call(...)` returns and _call_viewer decodes res["img"]; the
\* acknowledgement of a call that has already raised TimeoutError finds no
\* waiter and is dropped
AckArrive(k) ==
    /\ calls[k].wire = "acked"
    /\ LET m == MatchCall(calls[k].to, calls[k].id) IN
        calls' = [c \in CallIds |->
                    LET r == IF c \in m /\ calls[c].pc = "waiting"
                             THEN [calls[c] EXCEPT !.pc = "done", !.result = "png"]
                             ELSE calls[c]
                    IN IF c = k
                       THEN Returned([r EXCEPT !.wire = IF calls[k].pc = "waiting" /\ k \in m
                                                        THEN "none" ELSE "late"])
                       ELSE r]
    /\ UNCHANGED <<_connected_sid, sess, ncalls, ackCount, execVars, viewVars, outerVars>>

\* ------------------------------------------------ inline page "command" handler
\* socket.on("command", async (payload, cb) => { await exec(payload);
\*     const png = viewer.pngURI(); cb({img: png}); })
PageFinishThrew(k, outcome) == "threw"

\* exec and pngURI run unguarded: when one of them throws, cb is never called
PageFinish(k, outcome) == IF outcome = "ok" THEN "acked" ELSE "threw"

\* the oldest "command" event in flight to a page is taken by its handler (the
\* events of one connection arrive in the order sent); exec of load_pdb
\* suspends in `await fetch(url)`, every other command runs through to cb in
\* the same event-loop task
PageCommand(k, outcome) ==
    /\ calls[k].wire = "sent"
    /\ \A j \in CallIds :
          calls[j].wire = "sent" /\ calls[j].to = calls[k].to => calls[j].id >= calls[k].id
    /\ IF calls[k].payload = "load_pdb"
       THEN /\ outcome = "ok"
            /\ calls' = [calls EXCEPT ![k].wire = "fetching", ![k].payload = "none"]
       ELSE calls' = [calls EXCEPT ![k] = Returned([@ EXCEPT !.wire = PageFinish(k, outcome),
                                                        !.payload = "none"])]
    /\ UNCHANGED <<_connected_sid, sess, ncalls, ackCount, execVars, viewVars, outerVars>>

\* the fetch of a suspended load_pdb settles and the handler resumes
PageFetchSettles(k, outcome) ==
    /\ calls[k].wire = "fetching"
    /\ calls' = [calls EXCEPT ![k] = Returned([@ EXCEPT !.wire = PageFinish(k, outcome)])]
    /\ UNCHANGED <<_connected_sid, sess, ncalls, ackCount, execVars, viewVars, outerVars>>

Next ==
    \/ \E s \in Sids : OnConnectCheck(s)
    \/ \E s \in Sids : OnConnectSet(s)
    \/ \E s \in Sids : OnDisconnectCheck(s)
    \/ \E s \in Sids : OnDisconnectClear(s)
    \/ \E name \in CommandInputs : CallViewer(name)
    \/ \E c \in CallIds : CallSend(c)
    \/ \E c \in CallIds : CallTimeout(c)
    \/ \E k \in CallIds : AckArrive(k)
    \/ \E k \in CallIds : \E outcome \in {"ok", "png_throws"} : PageCommand(k, outcome)
    \/ \E k \in CallIds :
          \E outcome \in {"ok", "fetch_rejects", "png_throws"} : PageFetchSettles(k, outcome)

Spec == Init /\ [][Next]_vars

\* socketio.call blocks in Event.wait(timeout): the clock never stops, so a
\* wait that is not ended by an acknowledgement does run out
FairSpec == Spec /\ \A c \in CallIds : WF_vars(CallTimeout(c))

\* ------------------------------------- MolecularViewer 'command' handler
\* (request_id revision).  The handler is an async function on the browser's
\* single-threaded event loop: an invocation runs until it suspends in
\* `await fetch(url)` (load_pdb only), and other 'command' events are handled
\* while it is suspended.  `data` is a parameter of the invocation.
RequestIds == {1, 2}

ResponseRequestIdOfLatest(d) ==
    IF d.st = "fetching" THEN received[nreceived].request_id ELSE d.request_id

\* `const requestId = data.request_id || data.response_event;` as emitted in
\* `request_id: requestId` under `if (data.request_id)`
ResponseRequestId(d) == d.request_id

\* the catch block: `request_id: data.request_id`
ErrorRequestId(d) == d.request_id

RespondTwice(k, d, success) ==
    emitted' = emitted \o
        << [task |-> k, event |-> "viewer_command_response",
            request_id |-> ResponseRequestId(d), success |-> TRUE],
           [task |-> k, event |-> "viewer_command_response",
            request_id |-> ErrorRequestId(d), success |-> FALSE] >>

\* the emit that ends the try block (success) or the catch block (failure) of
\* the invocation for event k with data d; without request_id and
\* response_event nothing is emitted
Respond(k, d, success) ==
    IF d.request_id # 0
    THEN emitted' = Append(emitted,
            [task |-> k, event |-> "viewer_command_response",
             request_id |-> IF success THEN ResponseRequestId(d) ELSE ErrorRequestId(d),
             success |-> success])
    ELSE IF d.response_event # 0
    THEN emitted' = Append(emitted,
            [task |-> k, event |-> "response_event", request_id |-> 0,
             success |-> success])
    ELSE UNCHANGED emitted

\* a 'command' event arrives and its handler runs up to its first suspension:
\* execCommand of load_pdb clears the viewer, records currentPDB and suspends in
\* `await fetch(url)`; any other command runs execCommand, takeScreenshot and
\* the emit (or, when one of them throws, the catch block) without suspending
ExecCommand(name, rid, revt, outcome) ==
    /\ nreceived < MaxTasks
    /\ nreceived' = nreceived + 1
    /\ LET k == nreceived + 1
           d == [NoTask EXCEPT !.name = name, !.request_id = rid, !.response_event = revt]
       IN IF name = "load_pdb"
          THEN /\ outcome = "ok"
               /\ received' = [received EXCEPT ![k] = [d EXCEPT !.st = "fetching"]]
               /\ UNCHANGED emitted
          ELSE /\ received' = [received EXCEPT ![k] = [d EXCEPT !.st = "done"]]
               /\ Respond(k, d, outcome = "ok")
    /\ UNCHANGED <<bridgeVars, viewVars, outerVars>>

\* the fetch of a suspended load_pdb settles: on success the rest of execCommand,
\* takeScreenshot and the emit run; a rejected fetch, a response that is not ok
\* or a body shorter than 100 characters throws into the handler's catch block
ExecFetchSettles(k, outcome) ==
    /\ received[k].st = "fetching"
    /\ received' = [received EXCEPT ![k].st = "done"]
    /\ Respond(k, received[k], outcome = "ok")
    /\ UNCHANGED <<nreceived, bridgeVars, viewVars, outerVars>>

NextExec ==
    \/ \E name \in CommandInputs : \E rid \in RequestIds \cup {0} : \E revt \in {0, 1} :
          \E outcome \in {"ok", "throws"} : ExecCommand(name, rid, revt, outcome)
    \/ \E k \in TaskIds : \E outcome \in {"ok", "throws"} : ExecFetchSettles(k, outcome)

SpecExec == Init /\ [][NextExec]_vars


\* ------------------------------------------------ part 3: the render state

\* inputs of the commands
PdbIds         == {"1CRN", "4HHB"}
\* how the fetch of a structure file ends: a body of a PDB file, a response
\* that is not ok, a body shorter than 100 characters, a rejected fetch.  The
\* network decides this, not the viewer: it is an input of the command, kept
\* with the suspended invocation until the fetch settles
FetchOutcomes  == {"ok", "notok", "short", "rejected"}
\* the renderer during a command: works, throws once inside the command's try
\* block, or throws there and again in the render that ends execCommand
RenderOutcomes == {"ok", "throws", "broken"}
\* angles in degrees; 0 also stands for an absent (null) angle, which every
\* revision treats as 0
AnglesX == {0, 90}
AnglesY == {0, 45}
AnglesZ == {0, 30}
\* zoom factors in tenths; num is FALSE for a value that is not a number
\* (a non-empty string)
FactorInputs == {[num |-> TRUE, val |-> 20], [num |-> TRUE, val |-> 0],
                 [num |-> TRUE, val |-> -20], [num |-> FALSE, val |-> 0]}
BoxInputs    == {[center |-> <<0, 0, 0>>, size |-> <<10, 10, 10>>],
                 [center |-> <<5, 5, 5>>, size |-> <<20, 20, 20>>]}
\* style_type of the set_style tool: "enum": ["stick", "cartoon", "sphere", "line"]
StyleKinds   == {"stick", "cartoon", "sphere", "line"}
StyleInputs  == {"stick", "ribbon"}

\* --- the 3Dmol GLViewer calls execCommand makes, by their effect on the scene

\* viewer.clear(): removes models, shapes and surfaces (and the styles with
\* the models)
Clear(v) == [v EXCEPT !.models = {}, !.shapes = <<>>, !.surfaces = 0, !.styles = {}]

AddModel(v, m) == [v EXCEPT !.models = @ \cup {m}]

SetStyle(v, rule) == [v EXCEPT !.styles = @ \cup {rule}]

AddSurface(v) == [v EXCEPT !.surfaces = @ + 1]

RemoveAllShapes(v) == [v EXCEPT !.shapes = <<>>]

RemoveAllSurfaces(v) == [v EXCEPT !.surfaces = 0]

AddBox(v, center, size) ==
    [v EXCEPT !.shapes = Append(@, [center |-> center, size |-> size])]

\* viewer.zoomTo(): fits the view to the scene, the rotation stays
ZoomTo(v) == [v EXCEPT !.view.zoom = <<>>]

SetView(v, view) == [v EXCEPT !.view = view]

\* the axis argument of viewer.rotate: the name of an axis, or a number
NamedAxis(a)  == [name |-> a, num |-> 0]
NumberAxis(n) == [name |-> "", num |-> n]

\* viewer.rotate(angle, axis, animationDuration, fixedPath)
Rotate(v, angle, axis, animationDuration) ==
    IF angle = 0 THEN v
    ELSE [v EXCEPT !.view.rot = Append(@, [angle |-> angle, axis |-> axis]),
                   !.animating = @ \/ animationDuration # 0]

\* viewer.zoom(factor, animationDuration)
Zoom(v, factor, animationDuration) ==
    [v EXCEPT !.view.zoom = Append(@, factor),
              !.animating = @ \/ animationDuration # 0]

\* --- execCommand

\* `p.factor || 1.2`: 0 (and null) is falsy, any other number and any
\* non-empty string is truthy
DefaultFactor == [num |-> TRUE, val |-> 12]
Truthy(f)     == ~f.num \/ f.val # 0
ZoomFactor(f) == IF Truthy(f) THEN f ELSE DefaultFactor

ParseOrDefault(t, d) == [i \in 1..3 |-> d]

\* `parseFloat(c.x) || d` for each of x, y, z
ParseOr(t, d) == [i \in 1..3 |-> IF t[i] = 0 THEN d ELSE t[i]]

\* what is added to the scene for the body the fetch delivered: the structure,
\* or for a body that is not its PDB file a model without it
Body(pdb, outcome) == IF outcome = "ok" THEN pdb ELSE "empty"

\* execCommand returns to its caller (the 'command' handler, or loadPdb ..
\* resetView): on success the caller takes the screenshot at once and answers
\* with it, on a throw it answers with the error and takes no screenshot
Answer(n, name, success, v) ==
    [n |-> n, name |-> name, success |-> success, animating |-> success /\ v.animating,
     prev |-> reply.name]

\* case "load_pdb" up to the fetch.  The backup revision fetches first; the
\* other two clear the viewer and record currentPDB before they fetch
CaseLoadPdb(pdb, fetch) ==
    /\ ncommands < MaxCommands
    /\ ncommands' = ncommands + 1
    /\ suspended' = suspended \cup
          {[n |-> ncommands + 1, name |-> "load_pdb", pdb |-> pdb, fetch |-> fetch,
            models |-> viewer.models]}
    /\ IF revision = "backup"
       THEN UNCHANGED <<viewer, currentPDB>>
       ELSE /\ viewer' = Clear(viewer)
            /\ currentPDB' = pdb
    /\ UNCHANGED <<revision, viewerState, initialView, boxinfo, reply, bridgeVars, execVars, outerVars>>

\* what a load_pdb whose fetch delivered its body does to the scene
Loaded(s) ==
    IF revision = "backup"
    THEN ZoomTo(SetStyle(AddModel(Clear(viewer), Body(s.pdb, s.fetch)), "cartoon"))
    ELSE ZoomTo(SetStyle(AddModel(viewer, Body(s.pdb, s.fetch)), "cartoon"))

\* the outcomes of the fetch with which load_pdb goes on: the backup revision
\* tests response.ok only, the others also the length of the body
LoadGoesOn(outcome) ==
    IF revision = "backup" THEN outcome \in {"ok", "short"} ELSE outcome = "ok"

\* case "load_pdb" from the fetch on
LoadFetchSettles(s) ==
    /\ s \in suspended
    /\ s.name = "load_pdb"
    /\ suspended' = suspended \ {s}
    /\ IF LoadGoesOn(s.fetch)
       THEN /\ viewer' = Loaded(s)
            /\ IF revision = "backup"
               THEN UNCHANGED <<initialView, viewerState>>
               ELSE /\ initialView' = <<viewer'.view>>
                    /\ viewerState' = [viewerState EXCEPT !.rotationChanged = FALSE,
                                                          !.hasActiveBox = FALSE]
            /\ reply' = Answer(s.n, "load_pdb", TRUE, viewer')
       ELSE /\ UNCHANGED <<viewer, initialView, viewerState>>
            /\ reply' = Answer(s.n, "load_pdb", FALSE, viewer)
    /\ UNCHANGED <<revision, currentPDB, boxinfo, ncommands, bridgeVars, execVars, outerVars>>

CaseHighlightHetero ==
    /\ ncommands < MaxCommands
    /\ ncommands' = ncommands + 1
    /\ viewer' = SetStyle(viewer, "hetflag:stick")
    /\ reply' = Answer(ncommands + 1, "highlight_hetero", TRUE, viewer')
    /\ UNCHANGED <<revision, viewerState, currentPDB, initialView, boxinfo, suspended,
                   bridgeVars, execVars, outerVars>>

CaseShowSurface ==
    /\ ncommands < MaxCommands
    /\ ncommands' = ncommands + 1
    /\ viewer' = AddSurface(viewer)
    /\ reply' = Answer(ncommands + 1, "show_surface", TRUE, viewer')
    /\ UNCHANGED <<revision, viewerState, currentPDB, initialView, boxinfo, suspended,
                   bridgeVars, execVars, outerVars>>

\* the rotations every axis with a non-zero angle asks for, x then y then z
RotateEachAxis(v, x, y, z) ==
    Rotate(Rotate(Rotate(v, x, NamedAxis("x"), 0), y, NamedAxis("y"), 0), z, NamedAxis("z"), 0)

\* request_id revision: the if / else-if chain picks one axis, y by default
RotateAxis(x, y, z)  == IF x # 0 THEN "x" ELSE IF y # 0 THEN "y" ELSE IF z # 0 THEN "z" ELSE "y"
RotateAngle(x, y, z) == IF x # 0 THEN x ELSE IF y # 0 THEN y ELSE IF z # 0 THEN z ELSE 0

\* the viewer.rotate calls of case "rotate":
\*   backup:     rotate(angleX, 0, 0, 100); rotate(0, angleY, 0, 100);
\*               rotate(0, 0, angleZ, 100), each under `if (angle !== 0)`
\*   request_id: rotate(angle, axis, 0) for the one axis picked
\*   recreating: rotate(angleX, angleY, angleZ)
Rotated(v, x, y, z) ==
    CASE revision = "backup" ->
            LET v1 == IF x # 0 THEN Rotate(v, x, NumberAxis(0), 0) ELSE v
                v2 == IF y # 0 THEN Rotate(v1, 0, NumberAxis(y), 0) ELSE v1
            IN IF z # 0 THEN Rotate(v2, 0, NumberAxis(0), z) ELSE v2
      [] revision = "request_id" ->
            Rotate(v, RotateAngle(x, y, z), NamedAxis(RotateAxis(x, y, z)), 0)
      [] revision = "recreating" ->
            Rotate(v, x, NumberAxis(y), z)

CaseRotate(x, y, z) ==
    /\ ncommands < MaxCommands
    /\ ncommands' = ncommands + 1
    /\ viewer' = Rotated(viewer, x, y, z)
    /\ viewerState' =
          CASE revision = "backup" -> viewerState
            [] revision = "request_id" ->
                  [viewerState EXCEPT !.rotationChanged = TRUE,
                                      !.xRotated = RotateAxis(x, y, z) = "x",
                                      !.yRotated = RotateAxis(x, y, z) = "y",
                                      !.zRotated = RotateAxis(x, y, z) = "z"]
            [] revision = "recreating" ->
                  [viewerState EXCEPT !.rotationChanged = TRUE,
                                      !.xRotated = x # 0,
                                      !.yRotated = y # 0,
                                      !.zRotated = z # 0]
    /\ reply' = Answer(ncommands + 1, "rotate", TRUE, viewer')
    /\ UNCHANGED <<revision, currentPDB, initialView, boxinfo, suspended,
                   bridgeVars, execVars, outerVars>>

\* case "zoom": this.viewer.zoom(p.factor || 1.2, 1000), the same in every
\* revision
CaseZoom(f) ==
    /\ ncommands < MaxCommands
    /\ ncommands' = ncommands + 1
    /\ viewer' = Zoom(viewer, ZoomFactor(f), 1000)
    /\ reply' = Answer(ncommands + 1, "zoom", TRUE, viewer')
    /\ UNCHANGED <<revision, viewerState, currentPDB, initialView, boxinfo, suspended,
                   bridgeVars, execVars, outerVars>>

\* the animation a zoom or rotate started comes to its end
AnimationEnds ==
    /\ viewer.animating
    /\ viewer' = [viewer EXCEPT !.animating = FALSE]
    /\ UNCHANGED <<revision, viewerState, currentPDB, initialView, boxinfo, suspended,
                   reply, ncommands, bridgeVars, execVars, outerVars>>

KeepShapes(v) == v

\* the removeAllShapes that opens case "add_box"
ClearForBox(v) == RemoveAllShapes(v)

\* case "add_box".  backup and recreating take the numbers of center and size
\* as they are; the request_id revision parses them (`|| 0`, `|| 20`), and when
\* the renderer throws its catch block records the box (`|| 0`, `|| 10`) that
\* was not drawn.  The recreating revision sets hasActiveBox false and
\* boxCenter / boxSize null before anything else; when the render that follows
\* the addBox throws, its catch block shows an overlay with the fixed text
\* (0, 0, 0) / (10, 10, 10) and sets hasActiveBox true, nothing else
CaseAddBox(b, outcome) ==
    /\ ncommands < MaxCommands
    /\ revision = "backup" => outcome = "ok"
    /\ ncommands' = ncommands + 1
    /\ LET drawn    == outcome = "ok"
           center   == IF revision = "request_id" THEN ParseOr(b.center, 0) ELSE b.center
           size     == IF revision # "request_id" THEN b.size
                       ELSE IF drawn THEN ParseOr(b.size, 20) ELSE ParseOr(b.size, 10)
       IN IF revision = "recreating" /\ ~drawn
          THEN /\ viewer' = AddBox(ClearForBox(viewer), center, size)
               /\ boxinfo' = [display |-> "block", center |-> <<0, 0, 0>>,
                              size |-> <<10, 10, 10>>]
               /\ viewerState' = [viewerState EXCEPT !.hasActiveBox = TRUE,
                                                     !.boxCenter = Null,
                                                     !.boxSize = Null]
          ELSE /\ viewer' = IF drawn THEN AddBox(ClearForBox(viewer), center, size)
                            ELSE ClearForBox(viewer)
               /\ boxinfo' = [display |-> "block", center |-> center, size |-> size]
               /\ viewerState' =
                     IF revision = "backup" THEN viewerState
                     ELSE [viewerState EXCEPT !.hasActiveBox = TRUE,
                                              !.boxCenter = center,
                                              !.boxSize = size]
    /\ reply' = Answer(ncommands + 1, "add_box", outcome # "broken", viewer')
    /\ UNCHANGED <<revision, currentPDB, initialView, suspended, bridgeVars, execVars, outerVars>>

\* case "set_style": this.viewer.setStyle(p.selection || {}, p.style || {}),
\* the same in every revision; kind is the style the payload names
CaseSetStyle(kind) ==
    /\ ncommands < MaxCommands
    /\ ncommands' = ncommands + 1
    /\ viewer' = SetStyle(viewer, kind)
    /\ reply' = Answer(ncommands + 1, "set_style", TRUE, viewer')
    /\ UNCHANGED <<revision, viewerState, currentPDB, initialView, boxinfo, suspended,
                   bridgeVars, execVars, outerVars>>

BoxInfoExistsAlways == TRUE

\* `if (boxInfoDiv)` on the result of document.getElementById("boxinfo")
BoxInfoExists == boxinfo.display # "absent"

\* `boxInfoDiv.style.display = "none"` under that test: on null it is a TypeError
HideThrows == BoxInfoExists /\ boxinfo.display = "absent"

\* boxInfoDiv.style.display = "none", when the element exists
HideBoxInfo == IF BoxInfoExists /\ ~HideThrows
               THEN [boxinfo EXCEPT !.display = "none"]
               ELSE boxinfo

\* the flags the try block of reset (request_id revision) sets at its end
ResetFlags ==
    [viewerState EXCEPT !.wasReset = TRUE, !.shapesCleared = TRUE,
                        !.hasActiveBox = FALSE, !.boxCenter = Null, !.boxSize = Null,
                        !.rotationChanged = FALSE, !.xRotated = FALSE,
                        !.yRotated = FALSE, !.zRotated = FALSE]

\* the flags its catch block sets
ResetFlagsOnError == [viewerState EXCEPT !.wasReset = TRUE, !.shapesCleared = TRUE]

\* the structure the recreating reset fetches again: this.currentPDB || "1CRN"
ReloadPdb == IF currentPDB = "" THEN "1CRN" ELSE currentPDB

\* case "reset".
\*   backup:     hides boxinfo, removeAllShapes, setView(null), zoomTo, center;
\*               nothing catches a throw
\*   request_id: hides boxinfo, removeAllShapes, removeAllSurfaces, setView of
\*               initialView (zoomTo without one), render, then the flags; a
\*               throw of that render leaves it to the catch block
\*   recreating: clears wasReset and shapesCleared, hides boxinfo, removes the
\*               shapes and surfaces, sets shapesCleared, clears the viewer and
\*               returns the promise of the fetch of the structure
CaseReset(outcome, fetch) ==
    /\ ncommands < MaxCommands
    /\ revision # "request_id" => outcome = "ok"
    /\ revision # "recreating" => fetch = "ok"
    /\ ncommands' = ncommands + 1
    /\ boxinfo' = HideBoxInfo
    /\ CASE revision = "backup" ->
              /\ viewer' = IF HideThrows THEN viewer
                           ELSE ZoomTo(SetView(RemoveAllShapes(viewer), DefaultView))
              /\ reply' = Answer(ncommands + 1, "reset", ~HideThrows, viewer')
              /\ UNCHANGED <<viewerState, suspended>>
         [] revision = "request_id" ->
              /\ viewer' = LET v == RemoveAllSurfaces(RemoveAllShapes(viewer))
                           IN IF HideThrows THEN viewer
                              ELSE IF initialView # <<>> THEN SetView(v, initialView[1])
                              ELSE ZoomTo(v)
              /\ viewerState' = IF outcome = "ok" /\ ~HideThrows THEN ResetFlags
                                ELSE ResetFlagsOnError
              /\ reply' = Answer(ncommands + 1, "reset", outcome # "broken", viewer')
              /\ UNCHANGED suspended
         [] revision = "recreating" ->
              /\ viewer' = Clear(viewer)
              /\ viewerState' = [viewerState EXCEPT !.wasReset = FALSE,
                                                    !.shapesCleared = TRUE]
              /\ suspended' = suspended \cup
                    {[n |-> ncommands + 1, name |-> "reset", pdb |-> ReloadPdb,
                      fetch |-> fetch, models |-> viewer.models]}
              /\ UNCHANGED reply
    /\ UNCHANGED <<revision, currentPDB, initialView, bridgeVars, execVars, outerVars>>

\* performBasicReset(): removeAllShapes, setView of initialView (of null
\* without one), zoomTo, center, render, then its flags
PerformBasicReset(v) ==
    ZoomTo(SetView(RemoveAllShapes(v),
                   IF initialView # <<>> THEN initialView[1] ELSE DefaultView))

\* case "reset" of the recreating revision from the fetch on: the body,
\* whatever the response (response.ok is not tested), is loaded into a viewer
\* created anew; a rejected fetch falls back to performBasicReset
ResetFetchSettles(s) ==
    /\ s \in suspended
    /\ s.name = "reset"
    /\ suspended' = suspended \ {s}
    /\ IF s.fetch = "rejected"
       THEN /\ viewer' = PerformBasicReset(viewer)
            /\ viewerState' = [viewerState EXCEPT !.wasReset = TRUE,
                                                  !.hasActiveBox = FALSE,
                                                  !.boxCenter = Null,
                                                  !.boxSize = Null]
            /\ UNCHANGED initialView
       ELSE /\ viewer' = ZoomTo(SetStyle(AddModel(NewViewer, Body(s.pdb, s.fetch)), "cartoon"))
            /\ initialView' = <<viewer'.view>>
            /\ viewerState' = [viewerState EXCEPT !.wasReset = TRUE,
                                                  !.shapesCleared = TRUE,
                                                  !.hasActiveBox = FALSE,
                                                  !.boxCenter = Null,
                                                  !.boxSize = Null]
    /\ reply' = Answer(s.n, "reset", TRUE, viewer')
    /\ UNCHANGED <<revision, currentPDB, boxinfo, ncommands, bridgeVars, execVars, outerVars>>

\* the default case: console.warn("Unknown command:", p.name), then the render
\* that ends execCommand; the caller goes on as after any command
CaseDefault ==
    /\ ncommands < MaxCommands
    /\ ncommands' = ncommands + 1
    /\ reply' = Answer(ncommands + 1, "unknown", TRUE, viewer)
    /\ UNCHANGED <<revision, viewer, viewerState, currentPDB, initialView, boxinfo,
                   suspended, bridgeVars, execVars, outerVars>>

\* --- the methods for test validation

\* hasBox()
HasBox == viewerState.hasActiveBox

\* isClose(a, b, tolerance = 0.1): Math.abs(a - b) <= tolerance
IsClose(a, b) == (IF a >= b THEN a - b ELSE b - a) * 10 <= 1

\* `this.viewerState.boxCenter.x` in validateBox when boxCenter is null: a
\* TypeError, the call returns nothing
ValidateBoxThrows ==
    /\ viewerState.hasActiveBox
    /\ viewerState.boxCenter = Null \/ viewerState.boxSize = Null

\* validateBox(center, size): in the request_id revision the recorded centre
\* against `parseFloat(center.x) || 0` and the recorded size against
\* `parseFloat(size.x || size.w) || 10`; in the recreating revision against
\* center.x and size.x as they are.  It is not true when the call throws
ValidateBox(center, size) ==
    IF ~viewerState.hasActiveBox THEN FALSE
    ELSE IF ValidateBoxThrows THEN FALSE
    ELSE LET vcenter == viewerState.boxCenter
             vsize   == viewerState.boxSize
             c       == IF revision = "request_id" THEN ParseOr(center, 0) ELSE center
             sz      == IF revision = "request_id" THEN ParseOr(size, 10) ELSE size
         IN /\ \A i \in 1..3 : IsClose(vcenter[i], c[i])
            /\ \A i \in 1..3 : IsClose(vsize[i], sz[i])

NextView ==
    \/ \E pdb \in PdbIds : \E fetch \in FetchOutcomes : CaseLoadPdb(pdb, fetch)
    \/ \E s \in suspended : LoadFetchSettles(s)
    \/ CaseHighlightHetero
    \/ CaseShowSurface
    \/ \E x \in AnglesX : \E y \in AnglesY : \E z \in AnglesZ : CaseRotate(x, y, z)
    \/ \E f \in FactorInputs : CaseZoom(f)
    \/ AnimationEnds
    \/ \E b \in BoxInputs : \E outcome \in RenderOutcomes : CaseAddBox(b, outcome)
    \/ \E kind \in StyleInputs : CaseSetStyle(kind)
    \/ \E outcome \in RenderOutcomes : \E fetch \in FetchOutcomes : CaseReset(outcome, fetch)
    \/ \E s \in suspended : ResetFetchSettles(s)
    \/ CaseDefault

\* the page runs any one of the revisions
InitView ==
    /\ _connected_sid = None
    /\ sess = [s \in Sids |-> "new"]
    /\ calls = [c \in CallIds |-> NoCall]
    /\ ncalls = 0
    /\ ackCount = [s \in Sids |-> 0]
    /\ received = [k \in TaskIds |-> NoTask]
    /\ nreceived = 0
    /\ emitted = <<>>
    /\ revision \in Revisions
    /\ viewer = NewViewer
    /\ viewerState = NewViewerState
    /\ currentPDB = ""
    /\ initialView = <<>>
    /\ boxinfo = NoBoxInfo
    /\ suspended = {}
    /\ reply = NoReply
    /\ ncommands = 0
    /\ page = NoPage
    /\ responses = <<>>
    /\ script = <<>>
    /\ first = <<>>
    /\ runner = NewTestRunner
    /\ chat = NewChat

SpecView == InitView /\ [][NextView]_vars


\* ------------------------------------------------ part 4: the chat assistant
\* ChatAssistant.sendMessage gets the reply of /api/chat and hands every item
\* of data.responses to handleAIResponse in a forEach; a tool_start item goes
\* to handleToolStart, an async function that is not awaited.  The forEach is
\* one event-loop task: every handleToolStart runs up to its first suspension
\* before a fetch can settle.

\* JSON.parse(args), read by property name: a property the arguments do not
\* have is undefined
ParsedArgs(args, key) == IF key \in DOMAIN args THEN args[key] ELSE Undefined

\* the tool_start items of a reply
ToolStart(name, args) == [type |-> "tool_start", name |-> name, arguments |-> args]
NoArgs == [k \in {} |-> Undefined]
ToolStarts ==
    {ToolStart("load_pdb", [k \in {"pdb_id"} |-> "1CRN"]),
     ToolStart("highlight_hetero", NoArgs),
     ToolStart("set_style", [k \in {"selection", "style_type", "style_params"} |->
                                CASE k = "selection" -> "chain A"
                                  [] k = "style_type" -> "stick"
                                  [] k = "style_params" -> "null"]),
     ToolStart("reset_view", NoArgs)}

\* the replies of /api/chat: one to MaxCommands tool calls
Replies == UNION {[1..n -> ToolStarts] : n \in 1..MaxCommands}

\* `p.style || {}` of case "set_style": an undefined style is the empty style
StyleOrEmpty(style) == IF style = Undefined THEN "{}" ELSE style

\* sendMessage: the reply has arrived, and its forEach begins
SendMessage(items) ==
    /\ responses = <<>>
    /\ ncommands = 0
    /\ responses' = items
    /\ UNCHANGED <<page, script, first, bridgeVars, execVars, viewVars, runner, chat>>

\* the item the forEach hands out next (every tool call is one execCommand)
Handling == ncommands < Len(responses)

\* handleToolStart(name, args) up to its first suspension: the switch on name
\* calls loadPdb(parsedArgs.pdb_id), highlightHetero(),
\* setStyle(parsedArgs.selection, parsedArgs.style) or resetView(), each of
\* which calls execCommand
HandleToolStart ==
    /\ Handling
    /\ LET item == responses[ncommands + 1]
           args == item.arguments
       IN CASE item.name = "load_pdb" ->
                  \E fetch \in FetchOutcomes :
                      CaseLoadPdb(ParsedArgs(args, "pdb_id"), fetch)
            [] item.name = "highlight_hetero" -> CaseHighlightHetero
            [] item.name = "set_style" ->
                  CaseSetStyle(StyleOrEmpty(ParsedArgs(args, "style")))
            [] item.name = "reset_view" ->
                  \E outcome \in RenderOutcomes : \E fetch \in FetchOutcomes :
                      CaseReset(outcome, fetch)

\* after the forEach: the fetch of a suspended execCommand settles
ChatFetchSettles ==
    /\ ~Handling
    /\ \E s \in suspended : LoadFetchSettles(s) \/ ResetFetchSettles(s)

NextChat ==
    \/ \E items \in Replies : SendMessage(items)
    \/ HandleToolStart
    \/ ChatFetchSettles

SpecChat == InitView /\ [][NextChat]_vars

\* ------------------------------------------------ part 5: replaying a sequence
\* An executor is given a command sequence; how long a fetch takes is not in
\* its hands.  When it has finished, a second executor is started in the state
\* the constructor leaves and is given the same sequence.

\* the commands of a sequence, each with fixed arguments; the structure file
\* is fetched and the renderer works
ScriptCommands == {"load_pdb", "add_box", "rotate", "reset"}
Scripts == [1..MaxCommands -> ScriptCommands]

InitReplay ==
    /\ _connected_sid = None
    /\ sess = [s \in Sids |-> "new"]
    /\ calls = [c \in CallIds |-> NoCall]
    /\ ncalls = 0
    /\ ackCount = [s \in Sids |-> 0]
    /\ received = [k \in TaskIds |-> NoTask]
    /\ nreceived = 0
    /\ emitted = <<>>
    /\ revision \in Revisions
    /\ viewer = NewViewer
    /\ viewerState = NewViewerState
    /\ currentPDB = ""
    /\ initialView = <<>>
    /\ boxinfo = NoBoxInfo
    /\ suspended = {}
    /\ reply = NoReply
    /\ ncommands = 0
    /\ page = NoPage
    /\ responses = <<>>
    /\ script \in Scripts
    /\ first = <<>>
    /\ runner = NewTestRunner
    /\ chat = NewChat

\* the next command of the sequence arrives and execCommand runs up to its
\* first suspension
ReplayCommand ==
    /\ ncommands < Len(script)
    /\ LET name == script[ncommands + 1]
       IN CASE name = "load_pdb" -> CaseLoadPdb("1CRN", "ok")
            [] name = "add_box"  ->
                  CaseAddBox([center |-> <<0, 0, 0>>, size |-> <<10, 10, 10>>], "ok")
            [] name = "rotate"   -> CaseRotate(90, 0, 0)
            [] name = "reset"    -> CaseReset("ok", "ok")

\* the fetch of a suspended execCommand settles
ReplayFetchSettles ==
    \E s \in suspended : LoadFetchSettles(s) \/ ResetFetchSettles(s)

\* every command of the sequence has been executed to its end
Finished == ncommands = Len(script) /\ suspended = {}

\* what execCommand acts on: the scene and camera of the viewer, viewerState,
\* currentPDB, initialView and the boxinfo overlay
RenderState ==
    [viewer |-> viewer, viewerState |-> viewerState, currentPDB |-> currentPDB,
     initialView |-> initialView, boxinfo |-> boxinfo]

\* the first executor has finished: its render state is noted, and a second
\* MolecularViewer is constructed (a new viewer, viewerState as the
\* constructor sets it, no currentPDB, no initialView)
SecondExecutor ==
    /\ Finished
    /\ first = <<>>
    /\ first' = <<RenderState>>
    /\ viewer' = NewViewer
    /\ viewerState' = NewViewerState
    /\ currentPDB' = ""
    /\ initialView' = <<>>
    /\ boxinfo' = NoBoxInfo
    /\ suspended' = {}
    /\ reply' = NoReply
    /\ ncommands' = 0
    /\ UNCHANGED <<revision, page, responses, script, bridgeVars, execVars, runner, chat>>

NextReplay ==
    \/ ReplayCommand
    \/ ReplayFetchSettles
    \/ SecondExecutor

SpecReplay == InitReplay /\ [][NextReplay]_vars

\* ------------------------------------------------ part 6: the page of index.html
\* The head of index.html creates window.socket, which starts to connect at
\* once.  At DOMContentLoaded the request_id revision constructs
\* MolecularViewer(window.socket), ChatAssistant(window.socket), and (once
\* window.molecularViewer exists) TestRunner, which opens a socket of its own
\* that listens to "start_tests" only.  The server treats every connection as
\* a client: the first to be accepted is the primary.

\* the Socket.IO clients of the page
PageSockets == {"window", "testrunner"}

\* `new MolecularViewer(window.socket)`: the constructor's socketInstance
ViewerSocketInstance == "window.socket"

\* the constructor: `if (!this.socket) { this.initSocketIO(); } else
\* { this.connected = true; }` -- initSocketIO is what registers the 'command'
\* listener
InitSocketIOCalled(socketInstance) == socketInstance = "null"

\* the next sid the server allots
NextSid == CHOOSE s \in Sids :
              /\ page.socket[s] = "none"
              /\ \A r \in Sids : r < s => page.socket[r] # "none"

\* the connection request of one of the page's sockets reaches the server;
\* TestRunner's socket exists only after DOMContentLoaded
SocketArrives(sock) ==
    /\ \A s \in Sids : page.socket[s] # sock
    /\ sock = "testrunner" => page.loaded
    /\ page' = [page EXCEPT !.socket[NextSid] = sock]
    /\ UNCHANGED <<responses, script, first, bridgeVars, execVars, viewVars, runner, chat>>

\* DOMContentLoaded: molecularViewer = new MolecularViewer(window.socket)
DomContentLoaded ==
    /\ ~page.loaded
    /\ page' = [page EXCEPT !.loaded = TRUE,
                            !.listeners = IF InitSocketIOCalled(ViewerSocketInstance)
                                          THEN @ \cup {"window"} ELSE @]
    /\ UNCHANGED <<responses, script, first, bridgeVars, execVars, viewVars, runner, chat>>

\* the oldest 'command' event in flight to a socket of the page reaches it:
\* with a 'command' listener the handler takes it, without one the client
\* library discards the event and nothing answers it
SocketCommand(k) ==
    /\ calls[k].wire = "sent"
    /\ \A j \in CallIds :
          calls[j].wire = "sent" /\ calls[j].to = calls[k].to => calls[j].id >= calls[k].id
    /\ calls' = [calls EXCEPT ![k].wire =
                    IF page.socket[calls[k].to] \in page.listeners
                    THEN "fetching" ELSE "unheard",
                              ![k].payload = "none"]
    /\ UNCHANGED <<_connected_sid, sess, ncalls, ackCount, execVars, viewVars, outerVars>>

NextPage ==
    \/ \E sock \in PageSockets : SocketArrives(sock)
    \/ DomContentLoaded
    \/ \E s \in Sids : page.socket[s] # "none" /\ OnConnectCheck(s)
    \/ \E s \in Sids : OnConnectSet(s)
    \/ \E s \in Sids : OnDisconnectCheck(s)
    \/ \E s \in Sids : OnDisconnectClear(s)
    \/ \E name \in CommandInputs : CallViewer(name)
    \/ \E c \in CallIds : CallSend(c)
    \/ \E c \in CallIds : CallTimeout(c)
    \/ \E k \in CallIds : SocketCommand(k)

SpecPage == Init /\ [][NextPage]_vars

\* ------------------------------------------------ part 7: the test runner
\* TestRunner.runAllTests is called by the click on run-tests-btn and by the
\* "start_tests" event of the runner's socket.  It runs up to its first await
\* (the fetch that clears the server's results) in the step that calls it;
\* runTest suspends in `await test.run()` and in the 500 ms wait.  What
\* test.run() does to the viewer is part 3; here it is how it ends.

\* setupTests: the names of the tests, in the order of this.tests
SetupTests == << "Load PDB (1CRN)", "Load PDB and Highlight Hetero (1HSG)",
                 "Rotate X-axis", "Rotate Y-axis", "Rotate Z-axis", "Zoom",
                 "Add Box", "Set Custom Style", "Show Surface (4FNT)",
                 "Reset View" >>

tests == SubSeq(SetupTests, 1, MaxTests)

\* how test.run() ends: it returns {success: true}, returns {success: false},
\* or rejects
RunOutcomes   == {"pass", "fail", "throws"}
\* this.viewer.takeScreenshot(): a data URI, an empty value, or it throws
ShotOutcomes  == {"ok", "empty", "throws"}
\* how the fetch of /api/clear_test_results ends: a response (ok or not), or
\* a rejection
ClearOutcomes == {"ok", "notok", "rejected"}
Callers       == {"click", "start_tests"}

\* the finally block of runAllTests and its return
Finally(r) == [r EXCEPT !.running = FALSE, !.disabled = FALSE, !.at = "idle",
                        !.i = 0, !.ran = "none", !.active = @ - 1]

\* runTest(tests[i]) up to `await test.run()`
StartTest(r, i) == [r EXCEPT !.at = "run", !.i = i, !.ran = "none",
                             !.status[i] = "running"]

\* the end of runTest on either path: updateTestStatus with the badge of
\* testResult, reportTestResult, return; then `this.results.push(result)` and
\* the next turn of the loop, or after the last test showTestSummary and the
\* finally block
TestReturned(r, testResult) ==
    LET pushed == [r EXCEPT !.results = Append(@, testResult),
                            !.reported = Append(@, testResult),
                            !.status[r.i] = IF testResult.success THEN "success"
                                            ELSE "failed"]
    IN IF r.i < Len(tests) THEN StartTest(pushed, r.i + 1)
       ELSE Finally([pushed EXCEPT !.summary = TRUE])

\* the catch block of runTest: `image: this.viewer.takeScreenshot() || ""`,
\* updateTestStatus, reportTestResult, return.  When takeScreenshot throws
\* here runTest rejects, which ends the loop of runAllTests in its catch block
Caught(r, shot) ==
    IF shot = "throws" THEN Finally(r)
    ELSE TestReturned(r, [name |-> tests[r.i], success |-> FALSE,
                          image |-> IF shot = "ok" THEN "png" ELSE ""])

RunAllTestsUnguarded(by) ==
    /\ by = "click" => ~runner.disabled
    /\ runner' = [runner EXCEPT !.running = TRUE, !.results = <<>>,
                                !.reported = <<>>, !.summary = FALSE,
                                !.at = "clearing",
                                !.active = IF @ < 2 THEN @ + 1 ELSE @]
    /\ UNCHANGED <<bridgeVars, execVars, viewVars, page, responses, script, first, chat>>

\* runAllTests() up to `await fetch('/api/clear_test_results', ...)`.  A
\* disabled button delivers no click
RunAllTests(by) ==
    /\ by = "click" => ~runner.disabled
    /\ IF runner.running
       THEN UNCHANGED runner
       ELSE runner' = [runner EXCEPT !.running = TRUE, !.results = <<>>,
                                     !.reported = <<>>, !.summary = FALSE,
                                     !.at = "clearing", !.active = @ + 1]
    /\ UNCHANGED <<bridgeVars, execVars, viewVars, page, responses, script, first, chat>>

\* the fetch settles.  With a response: updateAllTestsStatus("pending"), the
\* button is disabled, and the loop starts runTest of the first test.  The
\* await is outside the try block: a rejection ends runAllTests there
ClearSettles(outcome) ==
    /\ runner.at = "clearing"
    /\ runner' = IF outcome = "rejected"
                 THEN [runner EXCEPT !.at = "idle", !.active = @ - 1]
                 ELSE StartTest([runner EXCEPT
                                    !.disabled = TRUE,
                                    !.status = [t \in 1..MaxTests |-> "pending"]], 1)
    /\ UNCHANGED <<bridgeVars, execVars, viewVars, page, responses, script, first, chat>>

\* test.run() settles: with a result runTest goes on to the 500 ms wait, with
\* a rejection to its catch block
TestRunSettles(outcome, shot) ==
    /\ runner.at = "run"
    /\ runner' = IF outcome = "throws" THEN Caught(runner, shot)
                 ELSE [runner EXCEPT !.at = "wait", !.ran = outcome]
    /\ UNCHANGED <<bridgeVars, execVars, viewVars, page, responses, script, first, chat>>

\* the 500 ms are over: takeScreenshot (no image is an Error), the
\* validation of the test's kind (valid: it does not throw), updateTestStatus,
\* reportTestResult, return; shot2 is the screenshot of the catch block
TimerFires(shot, valid, shot2) ==
    /\ runner.at = "wait"
    /\ runner' = IF shot = "ok" /\ valid
                 THEN TestReturned(runner, [name |-> tests[runner.i],
                                            success |-> runner.ran = "pass",
                                            image |-> "png"])
                 ELSE Caught(runner, shot2)
    /\ UNCHANGED <<bridgeVars, execVars, viewVars, page, responses, script, first, chat>>

NextTests ==
    \/ \E by \in Callers : RunAllTests(by)
    \/ \E outcome \in ClearOutcomes : ClearSettles(outcome)
    \/ \E outcome \in RunOutcomes : \E shot \in ShotOutcomes :
          TestRunSettles(outcome, shot)
    \/ \E shot \in ShotOutcomes : \E valid \in BOOLEAN : \E shot2 \in ShotOutcomes :
          TimerFires(shot, valid, shot2)

SpecTests == Init /\ [][NextTests]_vars

\* the browser settles every fetch, runs every timer, and the promise of
\* test.run() (fetches and timers of the viewer) settles
FairSpecTests ==
    /\ SpecTests
    /\ WF_vars(\E outcome \in ClearOutcomes : ClearSettles(outcome))
    /\ WF_vars(\E outcome \in RunOutcomes : \E shot \in ShotOutcomes :
                  TestRunSettles(outcome, shot))
    /\ WF_vars(\E shot \in ShotOutcomes : \E valid \in BOOLEAN : \E shot2 \in ShotOutcomes :
                  TimerFires(shot, valid, shot2))


\* ------------------------------------------------ part 8: the chat of the page
\* ChatAssistant: the state of the chat panel.  sendMessage runs up to
\* `await fetch(this.apiEndpoint, ...)` in the step that calls it; when the
\* response has been read it hands every item of data.responses to
\* handleAIResponse in one forEach.  handleToolStart creates its tool message,
\* calls the viewer and suspends in its await, so the forEach goes on to the
\* next item; what the call does to the viewer is parts 3 and 4.

\* the items of data.responses: text, a tool_start of a tool of the viewer
\* (its case awaits the viewer), a tool_start of a name handleToolStart does
\* not know (its default case awaits nothing)
ItemKinds   == {"text", "tool", "unknown"}
ChatReplies == UNION {[1..n -> ItemKinds] : n \in 1..2}
\* how the fetch of /api/chat ends: a response that is ok, one that is not,
\* a rejection
ChatOutcomes == {"ok", "notok", "rejected"}
\* the data of an 'ai_response' event of the socket
LegacyKinds == {"text", "error"}

NumTools(items) == Cardinality({k \in 1..Len(items) : items[k] # "text"})

\* setProcessingState(isProcessing)
SetProcessingState(c, isProcessing) ==
    [c EXCEPT !.isProcessing = isProcessing, !.disabled = isProcessing]

\* addTypingIndicator(): appends an element with id typing-indicator
AddTypingIndicator(c) == [c EXCEPT !.typing = @ + 1]

KeepTypingIndicator(c) == c

\* removeTypingIndicator(): removes the first element with that id, if any
RemoveTypingIndicator(c) == [c EXCEPT !.typing = IF @ > 0 THEN @ - 1 ELSE 0]

\* handleToolResult(name, result) at the end of the handleToolStart of tool
\* call `call`: the result goes into the last .tool-message of the document
HandleToolResult(c, call) ==
    IF c.messages = <<>> THEN c
    ELSE [c EXCEPT !.messages[Len(c.messages)].shows = call]

\* handleToolStart(name, args) up to its first suspension: the tool message
\* is appended, then the viewer is called and awaited; the default case
\* awaits nothing and goes on to handleToolResult
ToolStarted(c, item) ==
    LET call    == c.ntools + 1
        started == [c EXCEPT !.ntools = call,
                             !.messages = Append(@, [call |-> call, shows |-> 0])]
    IN IF item = "unknown" THEN HandleToolResult(started, call)
       ELSE [started EXCEPT !.pending = @ \cup {call}]

\* handleAIResponse(data): handleTextResponse and handleError end with
\* setProcessingState(false)
HandleAIResponse(c, item) ==
    IF item \in {"text", "error"} THEN SetProcessingState(c, FALSE)
    ELSE ToolStarted(c, item)

\* data.responses.forEach(item => this.handleAIResponse(item))
RECURSIVE ForEach(_, _)
ForEach(c, items) ==
    IF items = <<>> THEN c
    ELSE ForEach(HandleAIResponse(c, Head(items)), Tail(items))

\* the submit of the chat form with a message in the input: sendMessage up
\* to `await fetch`
SubmitMessage ==
    /\ chat.isProcessing \/ chat.nsent < MaxMessages
    /\ chat' = IF chat.isProcessing THEN chat
               ELSE [AddTypingIndicator(SetProcessingState(chat, TRUE)) EXCEPT
                        !.nsent = @ + 1, !.req[chat.nsent + 1] = "fetching"]
    /\ UNCHANGED <<bridgeVars, execVars, viewVars, page, responses, script, first, runner>>

\* the response of request r has been read (or the fetch has failed): the
\* rest of sendMessage.  items is data.responses; without it, and on the
\* catch path, handleError
ChatSettles(r, outcome, items) ==
    /\ chat.req[r] = "fetching"
    /\ outcome # "ok" => items = <<>>
    /\ chat.ntools + NumTools(items) <= MaxToolCalls
    /\ LET removed == RemoveTypingIndicator(chat)
           handled == IF items # <<>> THEN ForEach(removed, items)
                      ELSE HandleAIResponse(removed, "error")
       IN chat' = [SetProcessingState(handled, FALSE) EXCEPT !.req[r] = "done"]
    /\ UNCHANGED <<bridgeVars, execVars, viewVars, page, responses, script, first, runner>>

\* the await of a suspended handleToolStart returns (or throws): on either
\* path handleToolResult
ToolResumes(call) ==
    /\ call \in chat.pending
    /\ chat' = [HandleToolResult(chat, call) EXCEPT !.pending = @ \ {call}]
    /\ UNCHANGED <<bridgeVars, execVars, viewVars, page, responses, script, first, runner>>

\* the click on clear-chat-btn: clearChat() empties #chat-messages and ends
\* with setProcessingState(false)
ClearChat ==
    /\ chat' = [SetProcessingState(chat, FALSE) EXCEPT !.messages = <<>>, !.typing = 0]
    /\ UNCHANGED <<bridgeVars, execVars, viewVars, page, responses, script, first, runner>>

\* an 'ai_response' event arrives on the socket
LegacyResponse(item) ==
    /\ chat' = HandleAIResponse(chat, item)
    /\ UNCHANGED <<bridgeVars, execVars, viewVars, page, responses, script, first, runner>>

NextAssistant ==
    \/ SubmitMessage
    \/ \E r \in 1..MaxMessages : \E outcome \in ChatOutcomes :
          \E items \in ChatReplies \cup {<<>>} : ChatSettles(r, outcome, items)
    \/ \E call \in 1..MaxToolCalls : ToolResumes(call)
    \/ ClearChat
    \/ \E item \in LegacyKinds : LegacyResponse(item)

SpecAssistant == Init /\ [][NextAssistant]_vars

\* the browser settles every fetch, and the viewer call a handleToolStart
\* awaits settles
FairSpecAssistant ==
    /\ SpecAssistant
    /\ WF_vars(\E r \in 1..MaxMessages : \E outcome \in ChatOutcomes :
                  \E items \in ChatReplies \cup {<<>>} : ChatSettles(r, outcome, items))
    /\ WF_vars(\E call \in 1..MaxToolCalls : ToolResumes(call))


\* ------------------------------------------------------------------ claims

\* C1: for every interleaving of _on_connect and _on_disconnect, at most one
\* session holds the primary role at any instant: of the clients whose
\* connection was accepted (they were told "registered") and is still open,
\* there is never more than one.
C1_AtMostOnePrimary == Cardinality(Live) <= 1

\* C2: every response the MolecularViewer handler emits carries the
\* correlation id of the command it answers, on the success and on the error
\* path, whatever the order in which suspended invocations finish: a
\* viewer_command_response carries the request_id of its own event, a legacy
\* response goes to the response_event of its own event.
C2_ResponseCarriesRequestId ==
    \A i \in 1..Len(emitted) :
        LET r == emitted[i]
            d == received[r.task]
        IN /\ r.event = "viewer_command_response" =>
                d.request_id # 0 /\ r.request_id = d.request_id
           /\ r.event = "response_event" =>
                d.request_id = 0 /\ d.response_event # 0

\* two commands with different request ids were in the handler at once and were
\* answered in the opposite order of their arrival, one with success and one
\* with an error
C2_Witness ==
    \E i, j \in 1..Len(emitted) :
        /\ i < j
        /\ emitted[i].task > emitted[j].task
        /\ emitted[i].event = "viewer_command_response"
        /\ emitted[j].event = "viewer_command_response"
        /\ emitted[i].request_id # emitted[j].request_id
        /\ emitted[i].success # emitted[j].success

\* C3: every command delivered to a 'command' handler results in a response
\* (cb or emit), also when its execution or the snapshot throws: no handler
\* invocation ends without having answered.  Stated for the inline handler of
\* the app.py page.
C3_EveryCommandAnswered == \A c \in CallIds : calls[c].wire # "threw"

\* C4: _call_viewer entered while _connected_sid is None fails at once with the
\* connection-unavailable error: it emits no command, hands out no ack id and
\* never waits (so it cannot end in a timeout).
C4_NoViewerFailsFast ==
    [][\A c \in CallIds :
          calls[c].pc = "unused" /\ calls'[c].pc # "unused" /\ _connected_sid = None =>
              /\ calls'[c].pc = "done"
              /\ calls'[c].result = "ConnectionUnavailable"
              /\ calls'[c].wire = "none"
              /\ calls'[c].timer = 0
              /\ ackCount' = ackCount]_vars

\* a call failed with the connection-unavailable error after the viewer that
\* had served an earlier call went away
C4_Witness ==
    \E c \in CallIds : \E s \in Sids :
        /\ calls[c].result = "ConnectionUnavailable"
        /\ sess[s] = "closed"
        /\ ackCount[s] > 0

\* C5: a response that arrives after its call has timed out resolves no call:
\* a finished call keeps its result (no call is resolved twice), and a waiting
\* call returns a snapshot only in the step that consumes its own
\* acknowledgement.
C5_LateResponseDropped ==
    [][\A c \in CallIds :
          /\ calls[c].pc = "done" =>
                calls'[c].pc = "done" /\ calls'[c].result = calls[c].result
          /\ calls[c].pc = "waiting" /\ calls'[c].pc = "done" /\ calls'[c].result # "Timeout" =>
                /\ calls'[c].result = "png"
                /\ calls[c].wire = "acked"
                /\ calls'[c].wire = "none"]_vars

\* the acknowledgement of a timed-out call has arrived and was dropped while
\* another call to the same session was, and still is, waiting
C5_Witness ==
    \E c, d \in CallIds :
        /\ c # d
        /\ calls[c].result = "Timeout"
        /\ calls[c].wire = "late"
        /\ calls[d].pc = "waiting"
        /\ calls[d].to = calls[c].to

\* C6: a call that is waiting when its session disconnects ends with a timeout
\* instead of blocking forever, and no call waits longer than the 15 units of
\* its deadline: a waiting call whose session is gone leaves the wait only by
\* the timeout, and again and again no such call is left waiting (a closed
\* session never returns, so every one of them does end).
C6_DisconnectedCallTimesOut ==
    /\ [](\A c \in CallIds : calls[c].timer <= TIMEOUT)
    /\ [][\A c \in CallIds :
            calls[c].pc = "waiting" /\ sess[calls[c].to] # "connected"
                /\ calls'[c].pc # "waiting" =>
            calls'[c].pc = "done" /\ calls'[c].result = "Timeout"]_vars
    /\ []<>(\A c \in CallIds :
              ~(calls[c].pc = "waiting" /\ sess[calls[c].to] # "connected"))

\* a command was emitted to a live session, the session disconnected, and the
\* call ended with a timeout after the 15 units
C6_Witness ==
    \E c \in CallIds :
        /\ calls[c].result = "Timeout"
        /\ calls[c].timer = TIMEOUT
        /\ calls[c].wire = "lost"

\* C7: a client that connects while a primary is registered is refused, and
\* every command _call_viewer emits goes to the session that _connected_sid
\* names at the moment of sending, and to no other: commands are in flight
\* only to and from accepted, open connections, and a session that was not
\* accepted never gets one.
C7_CommandsOnlyToPrimary ==
    /\ [](\A c \in CallIds :
            calls[c].wire \in {"sent", "fetching", "acked"} =>
                sess[calls[c].to] = "connected")
    /\ [](\A s \in Sids : sess[s] \in {"new", "L127", "refused"} => ackCount[s] = 0)
    /\ [][/\ \A c \in CallIds :
              calls[c].pc = "L148" /\ calls'[c].pc = "waiting" =>
                  calls'[c].to = _connected_sid
          /\ \A s \in Sids :
              /\ ackCount'[s] # ackCount[s] => s = _connected_sid
              /\ sess[s] = "new" /\ sess'[s] # "new" /\ _connected_sid # None =>
                  sess'[s] = "refused"]_vars

\* a second client was refused while the primary was registered, and a command
\* has been emitted to the primary
C7_Witness ==
    \E p, s \in Sids :
        /\ sess[s] = "refused"
        /\ _connected_sid = p
        /\ sess[p] = "connected"
        /\ \E c \in CallIds : calls[c].to = p /\ calls[c].wire = "sent"

C9_OneCommandAtATime ==
    \A j, k \in TaskIds :
        j < k /\ received[k].st # "none" => received[j].st = "done"

\* C10: concurrent _call_viewer callers are serialized: at most one command
\* is in flight (emitted, and neither answered nor timed out) at any time.
C10_OneCallInFlight == Cardinality(Waiting) <= 1

\* C11: the snapshot a command is answered with is taken only after the
\* command's effect is fully applied: no screenshot is taken while a view
\* change (the animation a zoom or rotate started) is still in progress.
C11_SnapshotAfterEffect == ~reply.animating

\* C12: a load_pdb whose fetch is not ok, or delivers a body shorter than 100
\* characters, reports an error and leaves the render state as it was before
\* the command: neither of its two steps (up to the fetch, and from the fetch
\* on) changes the displayed models, currentPDB, initialView or viewerState.
C12_FailedLoadChangesNothing ==
    [][/\ \A s \in suspended' \ suspended :
            s.name = "load_pdb" /\ s.fetch \in {"notok", "short"} =>
                /\ viewer'.models = viewer.models
                /\ currentPDB' = currentPDB
                /\ initialView' = initialView
                /\ viewerState' = viewerState
       /\ \A s \in suspended \ suspended' :
            s.name = "load_pdb" /\ s.fetch \in {"notok", "short"} =>
                /\ reply'.n = s.n /\ ~reply'.success
                /\ viewer'.models = viewer.models
                /\ currentPDB' = currentPDB
                /\ initialView' = initialView
                /\ viewerState' = viewerState]_vars

\* C13: a rotate command applies every axis whose angle is non-null and
\* non-zero as a rotation of its own about that axis, x first, then y, then z,
\* after the rotations applied before it: with two or three axes in one
\* command none is skipped, and successive rotate commands compose in the
\* order they were issued.
C13_RotateEachAxisInOrder ==
    [][\A x \in AnglesX : \A y \in AnglesY : \A z \in AnglesZ :
          CaseRotate(x, y, z) =>
              viewer'.view.rot = RotateEachAxis(viewer, x, y, z).view.rot]_vars

C15_ResetClearsBox ==
    [][reply'.n # reply.n /\ reply'.name = "reset" /\ viewerState.hasActiveBox =>
          /\ ~viewerState'.hasActiveBox
          /\ viewerState'.boxCenter = Null
          /\ viewerState'.boxSize = Null
          /\ boxinfo'.display = "none"
          /\ viewerState'.wasReset
          /\ viewerState'.shapesCleared]_vars

\* C16: when load_pdb(id), its file fetched, returns with success, the loaded structure is id
\* (the displayed model, and currentPDB where the revision keeps it) and
\* nothing added before the load remains active: no shapes, no surfaces, no
\* active box, the rotation flags cleared; the saved initial view is the view
\* of the structure just loaded.
C16_LoadReplacesEverything ==
    [][\A s \in suspended \ suspended' :
          s.name = "load_pdb" /\ s.fetch = "ok" /\ reply'.n = s.n /\ reply'.success =>
              /\ viewer'.models = {s.pdb}
              /\ viewer'.shapes = <<>>
              /\ viewer'.surfaces = 0
              /\ revision # "backup" =>
                    /\ currentPDB' = s.pdb
                    /\ initialView' = <<viewer'.view>>
                    /\ ~viewerState'.hasActiveBox
                    /\ ~viewerState'.rotationChanged
                    /\ ~viewerState'.xRotated
                    /\ ~viewerState'.yRotated
                    /\ ~viewerState'.zRotated]_vars

\* C17: only load_pdb changes which structure is loaded: when any other
\* command (reset, highlight_hetero, show_surface, rotate, zoom, add_box,
\* set_style) returns to its caller, the displayed models are those that were
\* displayed when the command arrived and currentPDB is what it was, also
\* when no structure was loaded.
C17_OnlyLoadChangesStructure ==
    [][reply'.n # reply.n /\ reply'.name # "load_pdb" =>
          /\ currentPDB' = currentPDB
          /\ \A s \in suspended \ suspended' : viewer'.models = s.models
          /\ suspended' = suspended => viewer'.models = viewer.models]_vars

\* C18: a command whose name is not in the command set is surfaced to its
\* caller as an error; it is never answered with success.
C18_UnknownCommandFails == reply.name = "unknown" => ~reply.success

\* C19: zoom with an invalid factor (zero, negative, not a number) is rejected
\* with an error and leaves the camera as it was; with a factor > 0 the view
\* is scaled by exactly that factor.
C19_ZoomValidatesFactor ==
    [][\A f \in FactorInputs :
          CaseZoom(f) =>
              IF f.num /\ f.val > 0
              THEN reply'.success /\ viewer'.view.zoom = Append(viewer.view.zoom, f)
              ELSE ~reply'.success /\ viewer'.view = viewer.view]_vars

\* C20: set_style with a style type outside the allowed kinds (stick, cartoon,
\* sphere, line) is rejected with an error and applies no style rule.
C20_SetStyleValidatesType ==
    [][\A kind \in StyleInputs :
          CaseSetStyle(kind) /\ kind \notin StyleKinds =>
              ~reply'.success /\ viewer'.styles = viewer.styles]_vars

\* C22: when the renderer cannot draw the requested box (a call of the
\* add_box case throws), add_box is answered with an error: no box is recorded
\* as active, nothing is shown in its place, and success is not reported.
C22_AddBoxFailsExplicitly ==
    [][\A b \in BoxInputs : \A outcome \in RenderOutcomes \ {"ok"} :
          CaseAddBox(b, outcome) =>
              /\ ~reply'.success
              /\ viewerState' = viewerState
              /\ boxinfo' = boxinfo]_vars

C26_RotateFlagsEveryAxis ==
    [][\A x \in AnglesX : \A y \in AnglesY : \A z \in AnglesZ :
          CaseRotate(x, y, z) /\ revision # "backup" =>
              /\ viewerState'.rotationChanged
              /\ x # 0 => viewerState'.xRotated
              /\ y # 0 => viewerState'.yRotated
              /\ z # 0 => viewerState'.zRotated]_vars

\* C30: when two load_pdb executions overlap, then once both have finished the
\* viewer holds exactly one model, the structure currentPDB names.  Stated for
\* the overlap in which the load issued first finishes last, both with their
\* file fetched.
C30_OverlappingLoadsLeaveOneModel ==
    [][\A s \in suspended \ suspended' :
          /\ revision # "backup"
          /\ s.name = "load_pdb" /\ s.fetch = "ok"
          /\ reply.name = "load_pdb" /\ reply.success /\ reply.n > s.n
          /\ suspended' = {}
          => /\ viewer'.models = {currentPDB'}
             /\ initialView' # <<>>]_vars

\* C21: a set_style tool call of the chat assistant with the arguments
\* {selection, style_type, style_params} applies a style rule of kind
\* style_type; the style asked for is never replaced by the empty style.
C21_ToolSetStyleApplied ==
    [][HandleToolStart /\ responses[ncommands + 1].name = "set_style" =>
          /\ responses[ncommands + 1].arguments["style_type"] \in viewer'.styles
          /\ viewer'.styles \ viewer.styles # {"{}"}]_vars

\* C28: the tool calls of one chat reply are applied one at a time: a tool
\* call starts to change the viewer only when no earlier one (an awaited
\* load_pdb included) is still under way.
C28_ToolCallsSerialized ==
    [][HandleToolStart => suspended = {}]_vars

\* C23: command application is deterministic.  Two executors started in the
\* same render state and given the same command sequence end in the same
\* render state, however long the fetches took in each of them.
C23_ReplayDeterministic ==
    Finished /\ first # <<>> => RenderState = first[1]

\* C29: in the page of index.html with the request_id revision, a socket that
\* can become the primary has a 'command' listener before a command can reach
\* it: every command delivered to the page is taken by the handler that runs
\* execCommand, in whatever order the page's sockets connect.
C29_CommandListenerInstalled ==
    [][\A k \in CallIds :
          SocketCommand(k) => page.socket[calls[k].to] \in page.listeners]_vars

C31_AtMostOneResponse ==
    /\ \A i, j \in 1..Len(emitted) : emitted[i].task = emitted[j].task => i = j
    /\ \A i \in 1..Len(emitted) : received[emitted[i].task].st = "done"

C31_Witness ==
    /\ nreceived = MaxTasks
    /\ Len(emitted) = nreceived
    /\ \E i, j \in 1..Len(emitted) : emitted[i].success /\ ~emitted[j].success

\* C38: whenever no command is in progress the boxinfo overlay is displayed
\* if and only if viewerState.hasActiveBox is true (revisions that keep a
\* viewerState); load_pdb clears the active box and so leaves no overlay
\* displayed.
C38_OverlayIffActiveBox ==
    (revision # "backup" /\ suspended = {}) =>
        ((boxinfo.display = "block") <=> viewerState.hasActiveBox)

\* C39: in the recreating revision every reachable state with
\* viewerState.hasActiveBox true has non-null boxCenter and boxSize, after
\* the error path of add_box as well, so that validateBox does not
\* dereference null.
C39_ActiveBoxHasGeometry ==
    revision = "recreating" => ~ValidateBoxThrows


\* C32: runAllTests runs the tests strictly in suite order with at most one
\* run active: the results pushed so far are those of the first tests of the
\* suite in order and the test being run is the next one; a call made while a
\* run is in progress changes nothing and starts no test; a run that has
\* reached its summary has exactly one result per test, in suite order.
C32_OneRunInSuiteOrder ==
    /\ [](runner.active <= 1)
    /\ [](\A k \in 1..Len(runner.results) : runner.results[k].name = tests[k])
    /\ [](runner.at \in {"run", "wait"} => runner.i = Len(runner.results) + 1)
    /\ [](runner.summary => Len(runner.results) = Len(tests))
    /\ [][\A by \in Callers : RunAllTests(by) /\ runner.running => runner' = runner]_vars

C32_Witness ==
    /\ runner.summary /\ ~runner.running
    /\ Len(runner.results) = MaxTests
    /\ runner.results[1].success /\ ~runner.results[MaxTests].success

\* C33: every runAllTests that starts a run eventually sets running back to
\* false and enables the button again, however the run ends, the failure of
\* the request that clears the previous results included.
C33_RunEventuallyEnds ==
    runner.running ~> (~runner.running /\ ~runner.disabled)

\* C34: a failing test never prevents the remaining tests from running: a
\* test whose run fails yields a result with success false, every result is
\* reported to the server once, and a run that has started its tests ends only
\* after every test has produced its result.
C34_FailureBecomesAResult ==
    /\ [](runner.reported = runner.results)
    /\ [][\A shot \in ShotOutcomes :
            TestRunSettles("throws", shot) =>
                /\ Len(runner'.results) = Len(runner.results) + 1
                /\ ~runner'.results[Len(runner'.results)].success]_vars
    /\ [][runner.at \in {"run", "wait"} /\ runner'.at = "idle" =>
              runner'.summary /\ Len(runner'.results) = Len(tests)]_vars


\* C35: every tool result shown in the chat is written into the tool message
\* created for that same tool call: no tool message shows the result of
\* another call, and once no tool call and no request is pending no tool
\* message is left showing its progress text.
C35_ResultInOwnToolMessage ==
    /\ \A k \in 1..Len(chat.messages) :
          chat.messages[k].shows \in {0, chat.messages[k].call}
    /\ (chat.pending = {} /\ \A r \in 1..MaxMessages : chat.req[r] # "fetching") =>
          \A k \in 1..Len(chat.messages) : chat.messages[k].shows # 0

\* C36: at most one chat request is in flight: while a request has been sent
\* and its response has not been handled isProcessing is true, so that a
\* further sendMessage is ignored, whatever clearChat clicks and 'ai_response'
\* events arrive in between.
C36_OneRequestInFlight ==
    /\ Cardinality({r \in 1..MaxMessages : chat.req[r] = "fetching"}) <= 1
    /\ (\E r \in 1..MaxMessages : chat.req[r] = "fetching") => chat.isProcessing

\* C37: every sendMessage that sends a request eventually settles idle: its
\* request is over, isProcessing is false, the input is enabled and no typing
\* indicator is left, whether the request succeeds, gets a response that is
\* not ok, or throws.
C37_RequestSettlesIdle ==
    \A r \in 1..MaxMessages :
        (chat.req[r] = "fetching") ~>
            (chat.req[r] = "done" /\ ~chat.isProcessing /\ ~chat.disabled
                                  /\ chat.typing = 0)

C37_Witness ==
    /\ \A r \in 1..MaxMessages : chat.req[r] = "done"
    /\ ~chat.isProcessing /\ ~chat.disabled /\ chat.typing = 0
    /\ chat.ntools > 0 /\ chat.pending = {}

====
